---- MODULE Spec2Model ----
(***************************************************************************)
(* A model of reView's configuration object (reView/utils/config.py), its  *)
(* scatter-map component (reView/components/map.py) and the title builder  *)
(* shared by map.py and pages/scenario/element_builders.py.                *)
(*                                                                         *)
(* Python values are represented as follows.                               *)
(*   - an optional value (None or a value v) is the sequence <<>> or <<v>>;*)
(*   - a str whose characters matter (project names, column names) is a    *)
(*     sequence of one-character strings;                                  *)
(*   - a dict is a function whose DOMAIN is the set of its keys;           *)
(*   - an exception is a record [type, msg, keys].                         *)
(***************************************************************************)
EXTENDS Integers, Sequences, FiniteSets, TLC

VARIABLES
    PROJECT_CONFIGS,  \* config.py:37, the dict loaded at import, in key order
    all_configs,      \* Config._all_configs: project -> object id
    objects,          \* the Config objects: id -> [project, config]
    config_result,    \* outcome of the latest Config(project) call
    config_calls,     \* history: project -> set of [obj, ok] of its calls
    rev_file,         \* the columns of the supply-curve file at fpath
    capcol,           \* the latest infer_capcol call: its columns and outcome
    files,            \* the file system: path -> what reading the file meets
    read_cache,       \* lru_cache of _safe_read_csv, least recently used first
    read_result,      \* the latest _safe_read call: its path and outcome
    read_log,         \* history: the paths whose read returned, latest last
    df,               \* the dataframe the caller passes to Map: column -> rows
    map,              \* the Map object and the arguments it was built with
    marker,           \* the marker dictionary last read from Map.marker
    AGGREGATIONS,     \* the table AGGREGATIONS: variable -> "mean" or "sum"
    title_call        \* the latest build_title call: arguments and outcome

configVars ==
    <<PROJECT_CONFIGS, all_configs, objects, config_result, config_calls>>

capcolVars == <<rev_file, capcol>>

readVars == <<files, read_cache, read_result, read_log>>

mapVars == <<df, map, marker>>

titleVars == <<AGGREGATIONS, title_call>>

vars == <<configVars, capcolVars, readVars, mapVars, titleVars>>

(***************************************************************************)
(* Python values                                                           *)
(***************************************************************************)
None == <<>>

Some(v) == <<v>>

\* dict.get(key) with the default None
Get(d, k) == IF k \in DOMAIN d THEN d[k] ELSE None

\* the empty dict
EmptyDict == [k \in {} |-> None]

NoExc == [type |-> "none", msg |-> "", keys |-> {}]

SetMax(S) == CHOOSE x \in S : \A y \in S : y <= x

(***************************************************************************)
(* str.lower() on a character sequence                                     *)
(***************************************************************************)
Uppers ==
    <<"A", "B", "C", "D", "E", "F", "G", "H", "I", "J", "K", "L", "M",
      "N", "O", "P", "Q", "R", "S", "T", "U", "V", "W", "X", "Y", "Z">>

Lowers ==
    <<"a", "b", "c", "d", "e", "f", "g", "h", "i", "j", "k", "l", "m",
      "n", "o", "p", "q", "r", "s", "t", "u", "v", "w", "x", "y", "z">>

LowerChar(c) ==
    IF \E i \in 1..Len(Uppers) : Uppers[i] = c
    THEN Lowers[CHOOSE i \in 1..Len(Uppers) : Uppers[i] = c]
    ELSE c

Lower(s) == [i \in 1..Len(s) |-> LowerChar(s[i])]

(***************************************************************************)
(* Config (config.py:127-367)                                              *)
(***************************************************************************)
\* Config.REQUIREMENTS
REQUIREMENTS == {"directory"}

\* bound: how many projects the config directory holds at most
MaxProjects == 2

\* project names that occur as keys of PROJECT_CONFIGS
ProjNames == {<<"a", "b">>, <<"A", "b">>}

\* project arguments a caller passes: keys, other spellings, unknown names, None
ProjArgs ==
    {Some(n) : n \in ProjNames \cup {<<"A", "B">>, <<"c", "d">>}} \cup {None}

\* project config dictionaries, as far as Config.__init__ reads them
ConfigDicts ==
    {EmptyDict, [k \in {"directory"} |-> None],
     [k \in {"directory"} |-> Some("dir")]}

ProjectEntries == [name : ProjNames, config : ConfigDicts]

\* a dict has no key twice
DistinctNames(pc) ==
    \A i, j \in 1..Len(pc) : pc[i].name = pc[j].name => i = j

ProjectConfigsChoices ==
    {pc \in UNION {[1..n -> ProjectEntries] : n \in 1..MaxProjects} :
        DistinctNames(pc)}

\* dict.setdefault as a plain store: the new value always replaces the entry
SetDefaultOverwrite(d, k, v) ==
    [x \in DOMAIN d \cup {k} |-> IF x = k THEN v ELSE d[x]]

\* dict.setdefault(k, v): the dict afterwards
SetDefault(d, k, v) ==
    IF k \in DOMAIN d THEN d
    ELSE [x \in DOMAIN d \cup {k} |-> IF x = k THEN v ELSE d[x]]

\* the object id super().__new__(cls) yields
FreshObject == Cardinality(DOMAIN objects) + 1

\* Config._check_valid_project_name: the exception raised, if any
CheckValidProjectName(project) ==
    IF project = None
    THEN [type |-> "ValueError", msg |-> "Project input cannot be None!",
          keys |-> {}]
    ELSE NoExc

\* the loop of Config._set_config: the config the last matching key maps to
MatchConfig(pc, name) ==
    LET hits == {i \in 1..Len(pc) : Lower(pc[i].name) = Lower(name)}
    IN  IF hits = {} THEN None ELSE Some(pc[SetMax(hits)].config)

\* Config._set_config without its final check: it never raises
SetConfigExcUnchecked(config) == NoExc

\* Config._set_config: the exception raised, if any
SetConfigExc(config) ==
    IF config = None
    THEN [type |-> "ValueError", msg |-> "No project with name found",
          keys |-> {}]
    ELSE NoExc

\* the list `missing` of _check_required_keys_exist, testing key presence only
MissingKeysAbsentOnly(config) == {req \in REQUIREMENTS : req \notin DOMAIN config}

\* the list `missing` of Config._check_required_keys_exist
MissingKeys(config) == {req \in REQUIREMENTS : Get(config, req) = None}

\* Config._check_required_keys_exist on the attribute _config (None or a
\* dict): the exception raised, if any; None has no method get
CheckRequiredKeysExist(config) ==
    IF config = None
    THEN [type |-> "AttributeError", msg |-> "NoneType has no attribute get",
          keys |-> {}]
    ELSE IF MissingKeys(config[1]) # {}
    THEN [type |-> "ValueError", msg |-> "missing the following keys",
          keys |-> MissingKeys(config[1])]
    ELSE NoExc

\* Config.__init__: the attribute _config afterwards and the exception raised
ConfigInit(pc, project) ==
    IF CheckValidProjectName(project) # NoExc
    THEN [config |-> None, exc |-> CheckValidProjectName(project)]
    ELSE LET config == MatchConfig(pc, project[1])
         IN  IF SetConfigExc(config) # NoExc
             THEN [config |-> None, exc |-> SetConfigExc(config)]
             ELSE [config |-> config,
                   exc |-> CheckRequiredKeysExist(config)]

\* Config(project) with a cache that takes the object only once __init__
\* has returned
ConfigCallEffectValidated(project) ==
    LET cache == SetDefault(all_configs, project, FreshObject)
        obj   == cache[project]
        init  == ConfigInit(PROJECT_CONFIGS, project)
    IN  /\ all_configs' = IF init.exc = NoExc THEN cache ELSE all_configs
        /\ objects' = [o \in DOMAIN objects \cup {obj} |->
                          IF o = obj
                          THEN [project |-> project, config |-> init.config]
                          ELSE objects[o]]
        /\ config_result' = [project |-> project, obj |-> obj,
                             exc |-> init.exc,
                             repeat |-> project \in DOMAIN config_calls]
        /\ config_calls' =
               [p \in DOMAIN config_calls \cup {project} |->
                   (IF p \in DOMAIN config_calls THEN config_calls[p] ELSE {})
                   \cup (IF p = project
                         THEN {[obj |-> obj, ok |-> init.exc = NoExc]}
                         ELSE {})]
        /\ UNCHANGED PROJECT_CONFIGS

\* Config(project): __new__ then __init__ on the object __new__ returned
ConfigCallEffect(project) ==
    LET cache == SetDefault(all_configs, project, FreshObject)
        obj   == cache[project]
        init  == ConfigInit(PROJECT_CONFIGS, project)
    IN  /\ all_configs' = cache
        /\ objects' = [o \in DOMAIN objects \cup {obj} |->
                          IF o = obj
                          THEN [project |-> project, config |-> init.config]
                          ELSE objects[o]]
        /\ config_result' = [project |-> project, obj |-> obj,
                             exc |-> init.exc,
                             repeat |-> project \in DOMAIN config_calls]
        /\ config_calls' =
               [p \in DOMAIN config_calls \cup {project} |->
                   (IF p \in DOMAIN config_calls THEN config_calls[p] ELSE {})
                   \cup (IF p = project
                         THEN {[obj |-> obj, ok |-> init.exc = NoExc]}
                         ELSE {})]
        /\ UNCHANGED PROJECT_CONFIGS

\* a caller constructs Config(project)
ConfigCall(project) ==
    /\ ConfigCallEffect(project)
    /\ UNCHANGED <<capcolVars, readVars, mapVars, titleVars>>

NoResult == [project |-> None, obj |-> 0, exc |-> NoExc, repeat |-> FALSE]

\* the interpreter right after import: no Config constructed yet
ConfigFresh ==
    /\ all_configs = [p \in {} |-> 0]
    /\ objects = [o \in {} |-> 0]
    /\ config_result = NoResult
    /\ config_calls = [p \in {} |-> {}]

\* infer_capcol not called yet
NoCapcol == [called |-> FALSE, cols |-> <<>>, value |-> None, exc |-> NoExc]

\* _safe_read not called yet
NoRead ==
    [called |-> FALSE, path |-> None, status |-> "none", hit |-> FALSE,
     value |-> None, exc |-> NoExc]

\* no Map built yet
NoMap ==
    [constructed |-> FALSE, y |-> <<>>, units |-> "", ymin |-> None,
     ymax |-> None, user_ymin |-> None, user_ymax |-> None]

\* no supply-curve file, no project file and no dataframe in use
NoFiles ==
    /\ rev_file = <<>>
    /\ capcol = NoCapcol
    /\ files = <<>>
    /\ read_cache = <<>>
    /\ read_result = NoRead
    /\ read_log = <<>>

\* build_title not called yet
NoTitleCall ==
    [called |-> FALSE, df |-> None,
     signal |-> [project |-> None, y |-> <<>>, path |-> "", path2 |-> <<>>,
                 recalc |-> "off", recalc_table |-> None],
     map_selection |-> None, chart_selection |-> None, title |-> <<>>,
     exc |-> NoExc]

\* no title built and no aggregation table consulted
NoTitle ==
    /\ AGGREGATIONS = EmptyDict
    /\ title_call = NoTitleCall

NoFrames ==
    /\ df = <<>>
    /\ map = NoMap
    /\ marker = <<>>
    /\ NoTitle

\* nothing but Config is in use
OnlyConfig == NoFiles /\ NoFrames

InitConfig ==
    /\ PROJECT_CONFIGS \in ProjectConfigsChoices
    /\ ConfigFresh
    /\ OnlyConfig

NextConfig == \E project \in ProjArgs : ConfigCall(project)

SpecConfig == InitConfig /\ [][NextConfig]_vars

\* a Config(project) call has been made
ConfigCalled == config_result.obj # 0

\* no key of PROJECT_CONFIGS equals the name, letter case ignored
NoKeyMatches(name) ==
    \A i \in 1..Len(PROJECT_CONFIGS) :
        Lower(PROJECT_CONFIGS[i].name) # Lower(name)

(***************************************************************************)
(* C6: Config is a singleton per project name.  Every step keeps each      *)
(* entry of Config._all_configs in place with the same object, and all the *)
(* calls made so far with one project name got one and the same object.    *)
(***************************************************************************)
ConfigSingleton ==
    [][/\ \A p \in DOMAIN all_configs :
            p \in DOMAIN all_configs' /\ all_configs'[p] = all_configs[p]
       /\ \A p \in DOMAIN config_calls' :
            \A c, d \in config_calls'[p] : c.obj = d.obj]_vars

\* a project constructed successfully for the second time while another
\* project is cached as well
ConfigSingletonWitness ==
    /\ config_result.repeat
    /\ config_result.exc = NoExc
    /\ Cardinality(DOMAIN all_configs) >= 2

(***************************************************************************)
(* C7: a Config call whose project is None, or matches no key of           *)
(* PROJECT_CONFIGS case-insensitively, raises ValueError; on the first     *)
(* call and on every later call with that name.                            *)
(***************************************************************************)
UnknownProjectRaises ==
    (ConfigCalled /\ (config_result.project = None
                       \/ NoKeyMatches(config_result.project[1])))
        => config_result.exc.type = "ValueError"

\* an unknown name constructed again, after an earlier call with it
UnknownProjectRaisesWitness ==
    /\ config_result.repeat
    /\ config_result.project # None
    /\ NoKeyMatches(config_result.project[1])
    /\ config_result.exc.type = "ValueError"

(***************************************************************************)
(* C8: for a known project (the dictionary is the one of the last key that *)
(* matches the name), the call raises ValueError listing exactly the keys  *)
(* of REQUIREMENTS that the dictionary lacks or maps to None, and raises   *)
(* nothing when there is no such key.                                      *)
(***************************************************************************)
MissingKeysRaise ==
    (ConfigCalled /\ config_result.project # None
                  /\ ~NoKeyMatches(config_result.project[1]))
        => LET dict == MatchConfig(PROJECT_CONFIGS, config_result.project[1])[1]
               missing == {req \in REQUIREMENTS :
                              req \notin DOMAIN dict \/ dict[req] = None}
           IN  IF missing # {}
               THEN /\ config_result.exc.type = "ValueError"
                    /\ config_result.exc.msg = "missing the following keys"
                    /\ config_result.exc.keys = missing
               ELSE config_result.exc = NoExc

\* a known project whose dictionary maps "directory" to None was rejected
MissingKeysRaiseWitness ==
    /\ ConfigCalled
    /\ config_result.exc.keys = {"directory"}
    /\ "directory" \in DOMAIN objects[config_result.obj].config[1]

(***************************************************************************)
(* infer_capcol (config.py:41-58, 94-106)                                  *)
(***************************************************************************)
\* bound: how many columns a supply-curve file has at most
MaxCols == 3

W_capacity == <<"c", "a", "p", "a", "c", "i", "t", "y">>

W_density == <<"d", "e", "n", "s", "i", "t", "y">>

W_turbine == <<"t", "u", "r", "b", "i", "n", "e">>

W_system == <<"s", "y", "s", "t", "e", "m">>

W_ac == <<"_", "a", "c">>

W_dc == <<"_", "d", "c">>

W_mw == <<"_", "m", "w">>

W_us == <<"_">>

\* column names of supply-curve files
ColNames ==
    {W_capacity \o W_mw,                      \* capacity_mw
     W_capacity \o W_ac \o W_mw,              \* capacity_ac_mw
     W_capacity \o W_dc \o W_mw,              \* capacity_dc_mw
     W_capacity \o W_ac \o <<"r", "e", "s">>, \* capacity_acres
     W_capacity \o W_us \o W_density,         \* capacity_density
     W_turbine \o W_us \o W_capacity,         \* turbine_capacity
     W_system \o W_us \o W_capacity \o W_ac,  \* system_capacity_ac
     <<"C">> \o Tail(W_capacity),             \* Capacity
     <<"m", "e", "a", "n", "_", "c", "f">>}   \* mean_cf

\* the column lists of files: no name twice
ColumnLists ==
    {cols \in UNION {[1..n -> ColNames] : n \in 0..MaxCols} :
        \A i, j \in 1..Len(cols) : cols[i] = cols[j] => i = j}

\* Python's `sub in s` on strings
IsSubstr(sub, s) ==
    \E i \in 0..(Len(s) - Len(sub)) : SubSeq(s, i + 1, i + Len(sub)) = sub

\* contains(pattern, patterns)
contains(pattern, patterns) == \E p \in patterns : IsSubstr(p, pattern)

\* the list skippers of infer_capcol
skippers == {W_density, W_turbine, W_system}

\* the list capcols of infer_capcol, after both comprehensions
Capcols(cols) ==
    SelectSeq(SelectSeq(cols, LAMBDA col : IsSubstr(W_capacity, col)),
              LAMBDA col : ~contains(col, skippers))

\* infer_capcol taking the first candidate whenever there is one
InferCapcolFirst(cols) ==
    LET capcols == Capcols(cols)
    IN  IF Len(capcols) >= 1
        THEN [value |-> Some(capcols[1]), exc |-> NoExc]
        ELSE [value |-> None,
              exc |-> [type |-> "KeyError",
                       msg |-> "Could not find capacity column", keys |-> {}]]

\* infer_capcol, given the columns read_rev found in the file
InferCapcol(cols) ==
    LET capcols == Capcols(cols)
        ac == SelectSeq(capcols, LAMBDA col : IsSubstr(W_ac, col))
    IN  IF Len(capcols) = 1
        THEN [value |-> Some(capcols[1]), exc |-> NoExc]
        ELSE IF Len(ac) > 0
        THEN [value |-> Some(ac[1]), exc |-> NoExc]
        ELSE [value |-> None,
              exc |-> [type |-> "KeyError",
                       msg |-> "Could not find capacity column", keys |-> {}]]

\* infer_capcol(fpath) on the file as it is
InferCapcolCall ==
    /\ capcol' = [called |-> TRUE, cols |-> rev_file,
                  value |-> InferCapcol(rev_file).value,
                  exc |-> InferCapcol(rev_file).exc]
    /\ UNCHANGED <<configVars, rev_file, readVars, mapVars, titleVars>>

InitCapcol ==
    /\ PROJECT_CONFIGS = <<>>
    /\ ConfigFresh
    /\ rev_file \in ColumnLists
    /\ capcol = NoCapcol
    /\ files = <<>>
    /\ read_cache = <<>>
    /\ read_result = NoRead
    /\ read_log = <<>>
    /\ NoFrames

NextCapcol == InferCapcolCall

SpecCapcol == InitCapcol /\ [][NextCapcol]_vars

\* the usable capacity columns of a file: the name contains "capacity" and
\* none of "density", "turbine", "system"
UsableCols(cols) ==
    {i \in 1..Len(cols) :
        /\ IsSubstr(W_capacity, cols[i])
        /\ ~IsSubstr(W_density, cols[i])
        /\ ~IsSubstr(W_turbine, cols[i])
        /\ ~IsSubstr(W_system, cols[i])}

(***************************************************************************)
(* C9 as stated: infer_capcol raises KeyError exactly when the file has no *)
(* usable capacity column, and returns a column name whenever it has one.  *)
(***************************************************************************)
CapcolFailsOnlyWithoutUsable ==
    capcol.called =>
        IF UsableCols(capcol.cols) = {}
        THEN capcol.exc.type = "KeyError"
        ELSE capcol.exc = NoExc /\ capcol.value # None

(***************************************************************************)
(* C9 amended: infer_capcol returns a usable column when there is exactly  *)
(* one usable column or when some usable column contains "_ac"; it raises  *)
(* KeyError in every other case: no usable column, or several usable       *)
(* columns none of which contains "_ac".                                   *)
(***************************************************************************)
CapcolFailsWithoutChoice ==
    capcol.called =>
        LET usable == UsableCols(capcol.cols)
        IN  IF \/ Cardinality(usable) = 1
               \/ \E i \in usable : IsSubstr(W_ac, capcol.cols[i])
            THEN /\ capcol.exc = NoExc
                 /\ \E i \in usable : capcol.value = Some(capcol.cols[i])
            ELSE capcol.exc.type = "KeyError" /\ capcol.value = None

\* a file with several usable capacity columns, none of them AC: KeyError
CapcolFailsWithoutChoiceWitness ==
    /\ capcol.called
    /\ Cardinality(UsableCols(capcol.cols)) >= 2
    /\ capcol.exc.type = "KeyError"

(***************************************************************************)
(* Config._safe_read and _safe_read_csv (config.py:352-355, 370-377)       *)
(***************************************************************************)
\* bound: how many project file paths there are
MaxPaths == 2

\* maxsize of the lru_cache on _safe_read_csv
LruMaxSize == 16

Paths == 1..MaxPaths

\* a path argument: a path or None
OptPaths == {Some(p) : p \in Paths} \cup {None}

\* what pd.read_csv meets at a path: a csv file, no file, a file that does
\* not parse, a file the process may not open
FileStatus == {"csv", "missing", "unparsable", "denied"}

\* pd.read_csv(path): the exception type it raises ("none": it returns data)
ReadCsvExc(path) ==
    IF path = None THEN "ValueError"
    ELSE CASE files[path[1]] = "csv" -> "none"
           [] files[path[1]] = "missing" -> "FileNotFoundError"
           [] files[path[1]] = "unparsable" -> "ParserError"
           [] files[path[1]] = "denied" -> "PermissionError"

\* the exception types `except (ValueError, FileNotFoundError)` catches:
\* the two classes and their subclasses
Caught(type) == type \in {"ValueError", "ParserError", "FileNotFoundError"}

\* the body of _safe_read_csv: the value returned and the exception raised
SafeReadCsvBody(path) ==
    LET type == ReadCsvExc(path)
    IN  IF type = "none" THEN [value |-> Some("data"), exc |-> NoExc]
        ELSE IF Caught(type) THEN [value |-> None, exc |-> NoExc]
        ELSE [value |-> None, exc |-> [type |-> type, msg |-> "", keys |-> {}]]

\* the cache entries other than the one of path, in order
Without(cache, path) == SelectSeq(cache, LAMBDA e : e.path # path)

\* an lru_cache that never drops an entry
EvictNone(cache) == cache

\* lru_cache: drop the least recently used entries beyond maxsize
Evict(cache) ==
    IF Len(cache) > LruMaxSize
    THEN SubSeq(cache, Len(cache) - LruMaxSize + 1, Len(cache))
    ELSE cache

\* _safe_read_csv(path) through its lru_cache
SafeReadCsv(path) ==
    LET hits == {i \in 1..Len(read_cache) : read_cache[i].path = path}
        status == IF path = None THEN "nopath" ELSE files[path[1]]
    IN  /\ IF hits # {}
           THEN LET e == read_cache[CHOOSE i \in hits : TRUE]
                IN  /\ read_cache' = Append(Without(read_cache, path), e)
                    /\ read_result' = [called |-> TRUE, path |-> path,
                                       status |-> status, hit |-> TRUE,
                                       value |-> e.value, exc |-> NoExc]
           ELSE LET r == SafeReadCsvBody(path)
                IN  /\ read_cache' =
                           IF r.exc = NoExc
                           THEN Evict(Append(read_cache,
                                             [path |-> path,
                                              value |-> r.value]))
                           ELSE read_cache
                    /\ read_result' = [called |-> TRUE, path |-> path,
                                       status |-> status, hit |-> FALSE,
                                       value |-> r.value, exc |-> r.exc]
        /\ read_log' =
               IF read_result'.exc = NoExc
               THEN Append(Without(read_log, path),
                           [path |-> path, value |-> read_result'.value])
               ELSE read_log

\* Config._safe_read(fp_key, default_fp): configured is what
\* _extract_fp_from_config(fp_key) returns
SafeRead(configured, default_fp) ==
    /\ SafeReadCsv(IF configured # None THEN configured ELSE default_fp)
    /\ UNCHANGED <<configVars, capcolVars, files, mapVars, titleVars>>

\* the environment: a project file appears, disappears or changes
FileChange(p, status) ==
    /\ files[p] # status
    /\ files' = [files EXCEPT ![p] = status]
    /\ UNCHANGED <<configVars, capcolVars, read_cache, read_result, read_log,
                   mapVars, titleVars>>

InitRead ==
    /\ PROJECT_CONFIGS = <<>>
    /\ ConfigFresh
    /\ rev_file = <<>>
    /\ capcol = NoCapcol
    /\ files \in [Paths -> FileStatus]
    /\ read_cache = <<>>
    /\ read_result = NoRead
    /\ read_log = <<>>
    /\ NoFrames

NextRead ==
    \/ \E configured, default_fp \in OptPaths : SafeRead(configured, default_fp)
    \/ \E p \in Paths, status \in FileStatus : FileChange(p, status)

SpecRead == InitRead /\ [][NextRead]_vars

(***************************************************************************)
(* C10: a read through Config._safe_read of a file that cannot be read     *)
(* (no path, no file, a file that does not parse, a file the process may   *)
(* not open) raises nothing and returns None.                              *)
(***************************************************************************)
SafeReadNeverRaises ==
    (read_result.called /\ read_result.status # "csv")
        => read_result.exc = NoExc /\ read_result.value = None

(***************************************************************************)
(* Config.units and Config.scales (config.py:273-297)                      *)
(***************************************************************************)
\* dict.update: the entries of b replace those of a
Update(a, b) ==
    [k \in DOMAIN a \cup DOMAIN b |-> IF k \in DOMAIN b THEN b[k] ELSE a[k]]

\* dict.get(key, {}) on a config dictionary, whose values are wrapped
GetDict(config, key) ==
    IF key \in DOMAIN config /\ config[key] # None THEN config[key][1]
    ELSE EmptyDict

\* the string "na" a config file writes for "no value"
NA == <<"n", "a">>

\* variable names: the column name split into its name and difference suffix
MeanLcoe == <<"mean_lcoe">>

Capacity == <<"capacity">>

DemandConnectCount == <<"demand_connect_count">>

\* reView.utils.constants.COMMON_REV_COLUMN_UNITS
COMMON_REV_COLUMN_UNITS == [v \in {Capacity} |-> "MW"]

\* reView.utils.constants.SCALE_OVERRIDES
SCALE_OVERRIDES == [v \in {<<"total_lcoe">>} |-> [b \in {"min"} |-> Some(0)]]

\* reView.utils.functions.deep_replace(scales, {"na": None})
DeepReplaceNA(scales) ==
    [v \in DOMAIN scales |->
        [b \in DOMAIN scales[v] |->
            IF scales[v][b] = NA THEN None ELSE scales[v][b]]]

\* Config.units
ConfigUnits(config) == Update(COMMON_REV_COLUMN_UNITS, GetDict(config, "units"))

\* Config.scales
ConfigScales(config) ==
    DeepReplaceNA(Update(GetDict(config, "scales"), SCALE_OVERRIDES))

(***************************************************************************)
(* Map (map.py:23-293; element_builders.py:418-488 resolves the bounds the *)
(* same way).  The dataframe has no "turbine_y_coords" column, so the      *)
(* constructor keeps the caller's dataframe.  A request builds one Map and *)
(* discards it when it ends.                                               *)
(***************************************************************************)
\* bound: how many rows the dataframe has at most
MaxRows == 2

\* the values of a dataframe column
DataValues == {0, 3}

\* the values a user types into the axis bound inputs; None: left empty
UserBounds == {None, Some(0), Some(5)}

\* what Series.max() and Series.min() give for a column without rows
NaN == 1000000

\* the project Map is built for
MapProject == <<"a", "b">>

\* the scale a config file declares for a variable
ScaleDicts ==
    UNION {[keys -> {NA, Some(0), Some(6)}] :
              keys \in SUBSET {"min", "max"}}

\* the "scales" dictionary of a config file
ScalesDicts == {EmptyDict} \cup {[v \in {MeanLcoe} |-> sc] : sc \in ScaleDicts}

\* the "units" dictionary of a config file
UnitsDicts ==
    {EmptyDict} \cup {[v \in {MeanLcoe} |-> u] : u \in {"category"}}

\* the config dictionaries of the project Map is built for
MapConfigDicts ==
    {[k \in {"directory", "units", "scales"} |->
         CASE k = "directory" -> Some("dir")
           [] k = "units" -> Some(u)
           [] k = "scales" -> Some(sc)] :
        u \in UnitsDicts, sc \in ScalesDicts}

\* the dataframes: a column of the plotted variable, with or without a
\* column of demand counts, all columns of one length
DataFrames ==
    UNION {[cols -> [1..n -> DataValues]] :
              cols \in {{MeanLcoe}, {MeanLcoe, DemandConnectCount}},
              n \in 0..MaxRows}

\* bool(x) if 0 counted as a value
TruthyNotNone(x) == x # None

\* bool(x) of a number or None
Truthy(x) == x # None /\ x[1] # 0

\* `a or b` that never falls back
OrFirst(a, b) == a

\* Python's `a or b`
Or(a, b) == IF Truthy(a) THEN a ELSE b

\* Series.max()
SeriesMax(col) ==
    IF Len(col) = 0 THEN NaN
    ELSE CHOOSE x \in {col[i] : i \in 1..Len(col)} :
             \A i \in 1..Len(col) : col[i] <= x

\* Series.min()
SeriesMin(col) ==
    IF Len(col) = 0 THEN NaN
    ELSE CHOOSE x \in {col[i] : i \in 1..Len(col)} :
             \A i \in 1..Len(col) : x <= col[i]

\* Map.y without the demand counts
MapYSignal(m) == m.y

\* Map.y
MapY(m) ==
    IF DemandConnectCount \in DOMAIN df THEN DemandConnectCount ELSE m.y

\* Map.ymax without the fallback to the data
MapYmaxStored(m) == m.ymax

\* Map.ymax
MapYmax(m) ==
    IF Truthy(m.ymin) /\ ~Truthy(m.ymax)
    THEN Some(SeriesMax(df[MapY(m)]))
    ELSE m.ymax

\* Map.ymin
MapYmin(m) ==
    IF Truthy(m.ymax) /\ ~Truthy(m.ymin)
    THEN Some(SeriesMin(df[MapY(m)]))
    ELSE m.ymin

\* the config bound of Map.__init__: config.scales.get(y, {}).get(bound)
ScaleBound(config, y, bound) ==
    Get(IF y \in DOMAIN ConfigScales(config) THEN ConfigScales(config)[y]
        ELSE EmptyDict, bound)

\* the attributes _ymin and _ymax Map.__init__ sets
InitBound(user, config, y, bound) == Or(user, ScaleBound(config, y, bound))

\* Map(df, project, ..., signal_dict, ..., user_ymin, user_ymax)
MapInit(y, user_ymin, user_ymax) ==
    LET init == ConfigInit(PROJECT_CONFIGS, Some(MapProject))
        config == init.config[1]
    IN  /\ ~map.constructed
        /\ ConfigCallEffect(Some(MapProject))
        /\ init.exc = NoExc
        /\ map' = [constructed |-> TRUE, y |-> y,
                   units |-> IF y \in DOMAIN ConfigUnits(config)
                             THEN ConfigUnits(config)[y] ELSE "",
                   ymin |-> InitBound(user_ymin, config, y, "min"),
                   ymax |-> InitBound(user_ymax, config, y, "max"),
                   user_ymin |-> user_ymin, user_ymax |-> user_ymax]
        /\ UNCHANGED <<capcolVars, readVars, df, marker, titleVars>>

\* the dictionary Map.marker builds
MarkerDict(m) ==
    IF m.units = "category"
    THEN [color |-> <<>>, cmax |-> None, cmin |-> None]
    ELSE [color |-> df[MapY(m)], cmax |-> MapYmax(m), cmin |-> MapYmin(m)]

\* Map.marker
MapMarker ==
    /\ map.constructed
    /\ marker' = MarkerDict(map)
    /\ UNCHANGED <<configVars, capcolVars, readVars, df, map, titleVars>>

\* the request ends: its Map object is dropped, Config._all_configs stays
EndRequest ==
    /\ map.constructed
    /\ map' = NoMap
    /\ marker' = <<>>
    /\ title_call' = NoTitleCall
    /\ UNCHANGED <<configVars, capcolVars, readVars, df, AGGREGATIONS>>

InitMap ==
    /\ PROJECT_CONFIGS \in
           {<<[name |-> MapProject, config |-> c]>> : c \in MapConfigDicts}
    /\ ConfigFresh
    /\ NoFiles
    /\ df \in DataFrames
    /\ map = NoMap
    /\ marker = <<>>
    /\ NoTitle

NextMap ==
    \/ \E user_ymin, user_ymax \in UserBounds :
           MapInit(MeanLcoe, user_ymin, user_ymax)
    \/ MapMarker
    \/ EndRequest

SpecMap == InitMap /\ [][NextMap]_vars

\* the scale Config.scales holds for the variable Map plots, as get reads it
DeclaredBound(bound) ==
    ScaleBound(PROJECT_CONFIGS[1].config, map.y, bound)

\* the column Map plots: the demand counts if the dataframe has them
PlottedColumn ==
    IF DemandConnectCount \in DOMAIN df THEN df[DemandConnectCount]
    ELSE df[map.y]

(***************************************************************************)
(* C1: a Map built with user_ymin and user_ymax both supplied (not None)   *)
(* has ymin = user_ymin and ymax = user_ymax, for every config scale and   *)
(* every dataframe.                                                        *)
(***************************************************************************)
BothBoundsSupplied ==
    (map.constructed /\ map.user_ymin # None /\ map.user_ymax # None)
        => MapYmin(map) = map.user_ymin /\ MapYmax(map) = map.user_ymax

(***************************************************************************)
(* C2 as stated: with only user_ymin supplied, ymin = user_ymin and ymax   *)
(* is the maximum of the plotted column; with only user_ymax supplied,     *)
(* ymax = user_ymax and ymin is the minimum of the plotted column;         *)
(* whatever scale the config declares.                                     *)
(***************************************************************************)
OneBoundSupplied ==
    map.constructed =>
        /\ (map.user_ymin # None /\ map.user_ymax = None)
               => /\ MapYmin(map) = map.user_ymin
                  /\ MapYmax(map) = Some(SeriesMax(PlottedColumn))
        /\ (map.user_ymax # None /\ map.user_ymin = None)
               => /\ MapYmax(map) = map.user_ymax
                  /\ MapYmin(map) = Some(SeriesMin(PlottedColumn))

\* the bounds of a Map whose user bounds both count as not supplied: those
\* the config declares, except that a bound the config does not declare as a
\* non-zero number comes from the plotted column when the other one is
\* declared as a non-zero number
DeclaredOrDataMin ==
    IF Truthy(DeclaredBound("max")) /\ ~Truthy(DeclaredBound("min"))
    THEN Some(SeriesMin(PlottedColumn))
    ELSE DeclaredBound("min")

DeclaredOrDataMax ==
    IF Truthy(DeclaredBound("min")) /\ ~Truthy(DeclaredBound("max"))
    THEN Some(SeriesMax(PlottedColumn))
    ELSE DeclaredBound("max")

(***************************************************************************)
(* C2 amended: with only a non-zero user_ymin supplied, ymin = user_ymin   *)
(* and ymax is the max the config declares for the variable when that is a *)
(* non-zero number, and the maximum of the plotted column otherwise; with  *)
(* only a non-zero user_ymax supplied, ymax = user_ymax and ymin is the    *)
(* declared non-zero min, or else the minimum of the plotted column.  A    *)
(* single supplied bound of 0 gives the bounds of a Map with neither bound *)
(* supplied.                                                               *)
(***************************************************************************)
OneBoundSuppliedConfigFirst ==
    map.constructed =>
        /\ (map.user_ymin # None /\ map.user_ymax = None)
               => IF Truthy(map.user_ymin)
                  THEN /\ MapYmin(map) = map.user_ymin
                       /\ MapYmax(map) =
                              IF Truthy(DeclaredBound("max"))
                              THEN DeclaredBound("max")
                              ELSE Some(SeriesMax(PlottedColumn))
                  ELSE /\ MapYmin(map) = DeclaredOrDataMin
                       /\ MapYmax(map) = DeclaredOrDataMax
        /\ (map.user_ymax # None /\ map.user_ymin = None)
               => IF Truthy(map.user_ymax)
                  THEN /\ MapYmax(map) = map.user_ymax
                       /\ MapYmin(map) =
                              IF Truthy(DeclaredBound("min"))
                              THEN DeclaredBound("min")
                              ELSE Some(SeriesMin(PlottedColumn))
                  ELSE /\ MapYmin(map) = DeclaredOrDataMin
                       /\ MapYmax(map) = DeclaredOrDataMax

\* only user_ymin supplied, no max declared: ymax comes from the demand
\* counts, whose maximum differs from that of the variable's own column
OneBoundSuppliedWitness ==
    /\ map.constructed
    /\ Truthy(map.user_ymin) /\ map.user_ymax = None
    /\ DeclaredBound("max") = None
    /\ DemandConnectCount \in DOMAIN df
    /\ SeriesMax(df[DemandConnectCount]) # SeriesMax(df[map.y])
    /\ MapYmax(map) = Some(SeriesMax(df[DemandConnectCount]))

(***************************************************************************)
(* C3 as stated: with neither bound supplied, ymin and ymax are the min    *)
(* and max the config declares for the variable (None where it declares    *)
(* none) and no bound is taken from the dataframe.                         *)
(***************************************************************************)
NoBoundSupplied ==
    (map.constructed /\ map.user_ymin = None /\ map.user_ymax = None)
        => /\ MapYmin(map) = DeclaredBound("min")
           /\ MapYmax(map) = DeclaredBound("max")

(***************************************************************************)
(* C3 amended: with neither bound supplied, ymin and ymax are the min and  *)
(* max the config declares for the variable (None where it declares none), *)
(* except that when exactly one of the two is declared as a non-zero       *)
(* number the other bound is the minimum or maximum of the plotted column. *)
(***************************************************************************)
NoBoundSuppliedOneDeclared ==
    (map.constructed /\ map.user_ymin = None /\ map.user_ymax = None)
        => /\ MapYmin(map) =
                  IF Truthy(DeclaredBound("max")) /\ ~Truthy(DeclaredBound("min"))
                  THEN Some(SeriesMin(PlottedColumn))
                  ELSE DeclaredBound("min")
           /\ MapYmax(map) =
                  IF Truthy(DeclaredBound("min")) /\ ~Truthy(DeclaredBound("max"))
                  THEN Some(SeriesMax(PlottedColumn))
                  ELSE DeclaredBound("max")

\* neither bound supplied, only a min declared: ymin is the config's and
\* ymax is the maximum of the plotted rows
NoBoundSuppliedWitness ==
    /\ map.constructed
    /\ map.user_ymin = None /\ map.user_ymax = None
    /\ DeclaredBound("min") = Some(6) /\ DeclaredBound("max") = None
    /\ Len(PlottedColumn) > 0
    /\ MapYmin(map) = Some(6) /\ MapYmax(map) = Some(SeriesMax(PlottedColumn))

(***************************************************************************)
(* Strings of the title builder.  A title is a sequence of pieces: the     *)
(* text that the code searches, splits or re-cases (scenario names, file   *)
(* names) is kept character by character, and each literal of a template   *)
(* ("<br>", "  |  ", "Average") is kept as one piece.                      *)
(***************************************************************************)
UpperChar(c) ==
    IF \E i \in 1..Len(Lowers) : Lowers[i] = c
    THEN Uppers[CHOOSE i \in 1..Len(Lowers) : Lowers[i] = c]
    ELSE c

\* c.isalpha()
IsAlpha(c) ==
    \E i \in 1..Len(Lowers) : Lowers[i] = c \/ Uppers[i] = c

\* str.capitalize()
Capitalize(w) ==
    IF w = <<>> THEN w ELSE <<UpperChar(w[1])>> \o Lower(Tail(w))

\* where sep first occurs in s, 0 if nowhere
FindFirst(s, sep) ==
    LET at == {i \in 1..(Len(s) - Len(sep) + 1) :
                  SubSeq(s, i, i + Len(sep) - 1) = sep}
    IN  IF at = {} THEN 0 ELSE CHOOSE i \in at : \A j \in at : i <= j

RECURSIVE Split(_, _)
\* s.split(sep) for a non-empty separator
Split(s, sep) ==
    LET i == FindFirst(s, sep)
    IN  IF i = 0 THEN <<s>>
        ELSE <<SubSeq(s, 1, i - 1)>>
                 \o Split(SubSeq(s, i + Len(sep), Len(s)), sep)

\* s.split(): on runs of blanks, without empty strings
SplitBlanks(s) == SelectSeq(Split(s, <<" ">>), LAMBDA w : w # <<>>)

RECURSIVE Join(_, _)
\* sep.join(parts)
Join(parts, sep) ==
    IF Len(parts) = 0 THEN <<>>
    ELSE IF Len(parts) = 1 THEN parts[1]
    ELSE parts[1] \o sep \o Join(Tail(parts), sep)

RECURSIVE Interleave(_, _)
\* s.replace("", new): new before every character and at the end
Interleave(s, new) ==
    IF s = <<>> THEN new ELSE new \o <<Head(s)>> \o Interleave(Tail(s), new)

\* s.replace(old, new)
Replace(s, old, new) ==
    IF old = <<>> THEN Interleave(s, new) ELSE Join(Split(s, old), new)

\* the pieces of s with every piece old replaced by the piece new
ReplacePiece(s, old, new) ==
    [i \in 1..Len(s) |-> IF s[i] = old THEN new ELSE s[i]]

\* all but the last element: parts[:-1]
ButLast(parts) == SubSeq(parts, 1, Len(parts) - 1)

(***************************************************************************)
(* infer_recalc (map.py:416-431, element_builders.py:38-53)                *)
(***************************************************************************)
W_least == <<"l", "e", "a", "s", "t">>

\* the list variables of infer_recalc
RecalcVariables ==
    {<<"f", "c", "r">>, <<"c", "a", "p", "e", "x">>, <<"o", "p", "e", "x">>,
     <<"l", "o", "s", "s", "e", "s">>}

\* letters + ": " + numbers for one part of the recalc text
RecalcPart(part) ==
    LET letters == SelectSeq(part, IsAlpha)
        numbers == Replace(part, letters, <<>>)
    IN  letters \o <<":", " ">> \o numbers

\* infer_recalc(title): the title returned, or the exception raised
InferRecalc(title) ==
    IF ~IsSubstr(W_least, Lower(title))
    THEN [value |-> title, exc |-> NoExc]
    ELSE LET dropped == Join(ButLast(Split(title, <<" ">>)), <<" ">>)
         IN  IF ~\E v \in RecalcVariables : IsSubstr(v, dropped)
             THEN [value |-> dropped, exc |-> NoExc]
             ELSE LET dotted == Replace(dropped, <<"-">>, <<".">>)
                      parts  == Split(dotted, <<" ", " ">>)
                  IN  IF Len(parts) < 2
                      THEN [value |-> <<>>,
                            exc |-> [type |-> "IndexError",
                                     msg |-> "list index out of range",
                                     keys |-> {}]]
                      ELSE LET new_part ==
                                   [i \in 1..Len(SplitBlanks(parts[2])) |->
                                       RecalcPart(SplitBlanks(parts[2])[i])]
                           IN  [value |->
                                    parts[1] \o <<" ", "(">>
                                        \o Join(new_part, <<",", " ">>)
                                        \o <<")">>,
                                exc |-> NoExc]

(***************************************************************************)
(* build_title (map.py:296-412; element_builders.py:56-172 has the same    *)
(* statements).  A variable name is its column name followed, in           *)
(* difference mode, by the suffix of the difference unit.                  *)
(***************************************************************************)
\* bound: how many rows the dataframe passed to build_title has at most
MaxTitleRows == 1

\* bound: how many points a selection holds at most
MaxPoints == 1

HydrogenAnnualKg == <<"hydrogen_annual_kg">>

NoVariable == <<"None">>

State == <<"state">>

\* reView.utils.classes.DiffUnitOptions: the suffix of each option
DiffSuffix == [ORIGINAL |-> "_original", PERCENTAGE |-> "_percent"]

\* DiffUnitOptions.from_variable_name(y): the option y ends with, or None
FromVariableName(y) ==
    IF y # <<>> /\ \E o \in DOMAIN DiffSuffix : y[Len(y)] = DiffSuffix[o]
    THEN Some(CHOOSE o \in DOMAIN DiffSuffix : y[Len(y)] = DiffSuffix[o])
    ELSE None

\* DiffUnitOptions.remove_from_variable_name(y)
RemoveFromVariableName(y) ==
    IF FromVariableName(y) = None THEN y ELSE ButLast(y)

\* reView.utils.functions.convert_to_title: how each part of a name reads
TitleWords ==
    [w \in {"capacity", "mean_lcoe", "state", "demand_connect_count",
            "None", "_original", "_percent"} |->
        CASE w = "capacity" -> "Capacity"
          [] w = "demand_connect_count" -> "Demand Connect Count"
          [] w = "mean_lcoe" -> "Mean Lcoe"
          [] w = "state" -> "State"
          [] w = "None" -> "None"
          [] w = "_original" -> " Original"
          [] w = "_percent" -> " Percent"]

\* reView.utils.functions.convert_to_title(y)
ConvertToTitle(y) == [i \in 1..Len(y) |-> TitleWords[y[i]]]

\* scenario.build_name(path): the scenario names of the files on display
BuildName(path) ==
    CASE path = "wind" -> <<"W", "i", "n", "d">>
      [] path = "least_cost" ->
             <<"L", "e", "a", "s", "t", " ", "C", "o", "s", "t", " ", "x">>
      [] path = "least_fcr" ->
             <<"L", "e", "a", "s", "t", " ", " ", "f", "c", "r", "0", "-",
               "0", "5", " ", "x">>
      [] path = "least_opex" ->
             <<"l", "e", "a", "s", "t", " ", "o", "p", "e", "x", "1", " ",
               "x">>

\* Config.titles
ConfigTitles(config) == GetDict(config, "titles")

\* dict.get(key, default) on a dictionary of plain values
GetOr(d, k, default) == IF k \in DOMAIN d THEN d[k] ELSE default

\* y_no_diff_suffix, diff and is_percentage_diff
IsDiff(y) == FromVariableName(y) # None

IsPercentageDiff(y) == FromVariableName(y) = Some("PERCENTAGE")

\* units
TitleUnits(config, y) ==
    IF IsDiff(y) /\ IsPercentageDiff(y) THEN "%"
    ELSE GetOr(ConfigUnits(config), RemoveFromVariableName(y), "")

\* recalc_table, whatever recalc says
RecalcTableKept(signal) == signal.recalc_table

\* recalc_table
RecalcTable(signal) ==
    IF signal.recalc = "off" THEN None ELSE signal.recalc_table

\* the list msgs: one "k: v" for every entry with a value
RecalcMsgs(entries) ==
    LET kept == SelectSeq(entries, LAMBDA e : e.v # "")
    IN  [i \in 1..Len(kept) |-> <<kept[i].k, ": ", kept[i].v>>]

\* name += f" ({reprint})" when there are msgs
WithRecalc(name, entries) ==
    IF RecalcMsgs(entries) = <<>> THEN name
    ELSE name \o <<" (">> \o Join(RecalcMsgs(entries), <<", ">>) \o <<")">>

\* s1: scenario A's name, relabelled, or the exception infer_recalc raises
ScenarioA(signal) ==
    LET named == BuildName(signal.path)
        s1 == IF RecalcTable(signal) # None
                   /\ ~IsSubstr(W_least, Lower(named))
              THEN WithRecalc(named, RecalcTable(signal)[1].scenario_a)
              ELSE named
    IN  IF IsSubstr(W_least, Lower(s1)) THEN InferRecalc(s1)
        ELSE [value |-> s1, exc |-> NoExc]

\* config.titles.get(y_no_diff_suffix, convert_to_title(y))
VariableTitle(config, y) ==
    IF RemoveFromVariableName(y) \in DOMAIN ConfigTitles(config)
    THEN <<ConfigTitles(config)[RemoveFromVariableName(y)]>>
    ELSE ConvertToTitle(y)

\* ag_fun
AgFun(aggs, y) == GetOr(aggs, RemoveFromVariableName(y), "mean")

\* conditioner, as the aggregation table gives it
Conditioner(aggs, y) ==
    IF AgFun(aggs, y) = "mean" THEN <<"Average">> ELSE <<"Total">>

\* os.path.basename(path)
Basename(path) == Split(path, <<"/">>)[Len(Split(path, <<"/">>))]

\* s2: scenario B's name
ScenarioB(signal) ==
    LET stem  == Replace(Basename(signal.path2),
                         <<"_", "s", "c", ".", "c", "s", "v">>, <<>>)
        words == Split(stem, <<"_">>)
        named == Join([i \in 1..Len(words) |-> Capitalize(words[i])], <<" ">>)
    IN  IF RecalcTable(signal) # None
        THEN WithRecalc(named, RecalcTable(signal)[1].scenario_b)
        ELSE named

\* the title before any aggregate, taking the difference branch always
TitleHeadVs(config, signal, s1) ==
    s1 \o <<" vs. <br>">> \o ScenarioB(signal) \o <<"<br>">>
        \o VariableTitle(config, signal.y)

\* the title before any aggregate: scenario names and the variable title
TitleHead(config, signal, s1) ==
    IF IsDiff(signal.y)
    THEN s1 \o <<" vs. <br>">> \o ScenarioB(signal) \o <<"<br>">>
             \o VariableTitle(config, signal.y)
    ELSE Join(<<s1, VariableTitle(config, signal.y)>>, <<"<br>">>)

\* conditioner without the difference branch
TitleConditionerPlain(config, aggs, y) == Conditioner(aggs, y)

\* conditioner after the difference branch
TitleConditioner(config, aggs, y) ==
    IF IsDiff(y)
    THEN <<TitleUnits(config, y), " Difference | ", "Average">>
    ELSE Conditioner(aggs, y)

\* str.lower() of a variable name
LowerName(name) ==
    [i \in 1..Len(name) |-> IF name[i] = "None" THEN "none" ELSE name[i]]

\* y_exists
YExists(y) ==
    /\ RemoveFromVariableName(y) # <<>>
    /\ LowerName(RemoveFromVariableName(y)) # <<"none">>

\* "{:,}".format(round(col.apply(fun) / div, digits)): the number printed,
\* written as the expression that computes it
AgText(col, fun, div, digits) ==
    "round(" \o fun \o "(" \o ToString(col) \o ")" \o div \o ", " \o digits
        \o ")"

\* the aggregate parts the map title gets, or the exception df[y] raises
MapTitle(config, aggs, frame, y, title) ==
    LET capacity == RemoveFromVariableName(y) = Capacity
                        /\ TitleUnits(config, y) # "%"
        conditioner ==
            IF capacity
            THEN ReplacePiece(TitleConditioner(config, aggs, y),
                              "Average", "Total")
            ELSE TitleConditioner(config, aggs, y)
        ag == IF capacity
              THEN AgText(frame[y], AgFun(aggs, y), " / 1000000", "4")
              ELSE AgText(frame[y], AgFun(aggs, y), "", "2")
        punits == IF capacity THEN <<"TW">>
                  ELSE IF IsDiff(y) THEN <<>>
                  ELSE <<GetOr(ConfigUnits(config),
                               RemoveFromVariableName(y), "")>>
        ag_print == <<"  |  ">> \o conditioner \o <<": ", ag>>
        printed == Join(<<title, ag_print>> \o
                            [i \in 1..Len(punits) |-> <<punits[i]>>],
                        <<" ">>)
    IN  IF y \notin DOMAIN frame
        THEN [value |-> <<>>,
              exc |-> [type |-> "KeyError", msg |-> "y", keys |-> {}]]
        ELSE IF HydrogenAnnualKg \in DOMAIN frame
        THEN [value |->
                  Join(<<printed,
                         <<"  |  ", "Total H2", ": ",
                           AgText(frame[HydrogenAnnualKg], "sum", "", "2")>>
                       >>, <<" ">>),
              exc |-> NoExc]
        ELSE [value |-> printed, exc |-> NoExc]

\* bool(selection) of None or a dictionary
SelectionGiven(selection) == selection # None /\ DOMAIN selection[1] # {}

\* the selection print with the count of a single point
SelectionPrintOne(selection) == <<"Selected point count: ", "1">>

\* "Selected point count: {:,}".format(len(selection["points"]))
SelectionPrint(selection) ==
    <<"Selected point count: ", ToString(Len(selection[1]["points"]))>>

\* the title with the selection counts appended
WithSelections(title, map_selection, chart_selection) ==
    LET mapped == IF SelectionGiven(map_selection)
                  THEN Join(<<title, SelectionPrint(map_selection)>>,
                            <<"  |  ">>)
                  ELSE title
    IN  IF SelectionGiven(chart_selection)
        THEN Join(<<mapped, SelectionPrint(chart_selection)>>, <<"<br>">>)
        ELSE mapped

\* build_title after Config(project) returned config: the title returned,
\* or the exception raised
BuildTitle(config, aggs, frame, signal, map_selection, chart_selection) ==
    LET s1   == ScenarioA(signal)
        head == TitleHead(config, signal, s1.value)
        body == IF /\ frame # None
                   /\ YExists(signal.y)
                   /\ TitleUnits(config, signal.y) # "category"
                THEN MapTitle(config, aggs, frame[1], signal.y, head)
                ELSE [value |-> head, exc |-> NoExc]
    IN  IF s1.exc # NoExc THEN [title |-> <<>>, exc |-> s1.exc]
        ELSE IF body.exc # NoExc THEN [title |-> <<>>, exc |-> body.exc]
        ELSE [title |-> WithSelections(body.value, map_selection,
                                       chart_selection),
              exc |-> NoExc]

\* the variables a signal may name: a column, with or without a difference
\* suffix, or the placeholder "None"
TitleYs ==
    {base \o suffix : base \in {Capacity, MeanLcoe},
                      suffix \in {<<>>, <<"_original">>, <<"_percent">>}}
        \cup {State, NoVariable}

\* the values of a column of the dataframe passed to build_title
TitleValues == {3}

\* the df argument for a signal on y: not a dataframe (None), or a dataframe
\* with the y column, with or without rows and with or without the hydrogen
\* column, or a dataframe without the y column
TitleFrames(y) ==
    {None} \cup
    {Some(f) : f \in UNION ({[{y} -> [1..n -> TitleValues]] :
                                n \in 0..MaxTitleRows} \cup
                            {[cols -> [1..MaxTitleRows -> TitleValues]] :
                                cols \in {{y, HydrogenAnnualKg},
                                          {HydrogenAnnualKg}}})}

\* signal_dict["path"]: the scenario files on display
ScenarioPaths == {"wind", "least_cost", "least_fcr", "least_opex"}

\* signal_dict["path2"]
ScenarioPaths2 ==
    {<<"d", "/", "w", "i", "n", "d", "_", "b", "_", "s", "c", ".", "c", "s",
       "v">>}

\* signal_dict["recalc_table"]
RecalcTables ==
    {Some([scenario_a |-> <<[k |-> "fcr", v |-> "0.05"],
                            [k |-> "capex", v |-> ""]>>,
           scenario_b |-> <<[k |-> "fcr", v |-> "0.07"]>>]),
     Some([scenario_a |-> <<[k |-> "fcr", v |-> ""]>>,
           scenario_b |-> <<[k |-> "fcr", v |-> ""]>>])}

\* the signal dictionaries
Signals ==
    [project : {Some(MapProject)}, y : TitleYs, path : ScenarioPaths,
     path2 : ScenarioPaths2, recalc : {"off", "on"},
     recalc_table : RecalcTables]

\* map_selection: None, an empty dictionary, or a dictionary with points
MapSelections ==
    {None, Some(EmptyDict)} \cup
    {Some([k \in {"points"} |-> [i \in 1..n |-> i]]) : n \in 0..MaxPoints}

\* chart_selection
ChartSelections == {None, Some([k \in {"points"} |-> <<1>>])}

\* the table AGGREGATIONS of reView.utils.constants: every way it may treat
\* a variable (summed, averaged, not listed)
AggregationTables ==
    {EmptyDict,
     [v \in {Capacity, MeanLcoe} |-> IF v = Capacity THEN "sum" ELSE "mean"],
     [v \in {Capacity, MeanLcoe} |-> IF v = Capacity THEN "mean" ELSE "sum"]}

\* the config dictionary of the project titles are built for: it gives
\* mean_lcoe a title and no unit, and makes state a category
TitleConfigDicts ==
    {[k \in {"directory", "units", "titles"} |->
         CASE k = "directory" -> Some("dir")
           [] k = "units" -> Some([v \in {State} |-> "category"])
           [] k = "titles" -> Some([v \in {MeanLcoe} |-> "LCOE"])]}

\* build_title(df, signal_dict, map_selection, chart_selection)
BuildTitleCall(frame, signal, map_selection, chart_selection) ==
    LET init == ConfigInit(PROJECT_CONFIGS, signal.project)
        out  == IF init.exc # NoExc THEN [title |-> <<>>, exc |-> init.exc]
                ELSE BuildTitle(init.config[1], AGGREGATIONS, frame, signal,
                                map_selection, chart_selection)
    IN  /\ ~title_call.called
        /\ ConfigCallEffect(signal.project)
        /\ title_call' =
               [called |-> TRUE, df |-> frame, signal |-> signal,
                map_selection |-> map_selection,
                chart_selection |-> chart_selection,
                title |-> out.title, exc |-> out.exc]
        /\ UNCHANGED <<capcolVars, readVars, mapVars, AGGREGATIONS>>

\* the callback that asked for the title returns
TitleReturn ==
    /\ title_call.called
    /\ title_call' = NoTitleCall
    /\ UNCHANGED <<configVars, capcolVars, readVars, mapVars, AGGREGATIONS>>

InitTitle ==
    /\ PROJECT_CONFIGS \in
           {<<[name |-> MapProject, config |-> c]>> : c \in TitleConfigDicts}
    /\ ConfigFresh
    /\ NoFiles
    /\ df = <<>>
    /\ map = NoMap
    /\ marker = <<>>
    /\ AGGREGATIONS \in AggregationTables
    /\ title_call = NoTitleCall

NextTitle ==
    \/ \E signal \in Signals :
           \E frame \in TitleFrames(signal.y),
              map_selection \in MapSelections,
              chart_selection \in ChartSelections :
               BuildTitleCall(frame, signal, map_selection, chart_selection)
    \/ TitleReturn

SpecTitle == InitTitle /\ [][NextTitle]_vars

(***************************************************************************)
(* Reading a returned title: the aggregate is the first "  |  " part that  *)
(* is not a selection count, and its label runs up to the next ": ".       *)
(***************************************************************************)
TitleReturned == title_call.called /\ title_call.exc = NoExc

SelectedPointCount == "Selected point count: "

AggregateStarts(title) ==
    {i \in 1..(Len(title) - 1) :
        title[i] = "  |  " /\ title[i + 1] # SelectedPointCount}

HasAggregate(title) == AggregateStarts(title) # {}

AggregateLabel(title) ==
    LET i == CHOOSE i \in AggregateStarts(title) :
                 \A k \in AggregateStarts(title) : i <= k
        j == CHOOSE j \in (i + 1)..Len(title) :
                 /\ title[j] = ": "
                 /\ \A k \in (i + 1)..(j - 1) : title[k] # ": "
    IN  SubSeq(title, i + 1, j - 1)

\* the entry of the variable of the latest call in AGGREGATIONS is sum-like
SumLike ==
    LET name == RemoveFromVariableName(title_call.signal.y)
    IN  name \in DOMAIN AGGREGATIONS /\ AGGREGATIONS[name] # "mean"

(***************************************************************************)
(* C4: in a title build_title returns with an aggregate, the conditioner   *)
(* is "Total" if and only if the variable's entry in AGGREGATIONS is       *)
(* sum-like, and "Average" in every other case (entry "mean", or no        *)
(* entry), for every variable, capacity and difference-mode variables      *)
(* included.                                                               *)
(***************************************************************************)
ConditionerFollowsTable ==
    TitleReturned /\ HasAggregate(title_call.title)
        => AggregateLabel(title_call.title) =
               IF SumLike THEN <<"Total">> ELSE <<"Average">>

(***************************************************************************)
(* C5: when y carries no difference suffix, the title build_title returns  *)
(* holds neither the "Difference" conditioner nor the "vs." line: it is    *)
(* scenario A's name, "<br>", the variable title, then the optional        *)
(* aggregate part and the optional selection counts.                       *)
(***************************************************************************)
IsAggregatePart(part) ==
    \/ part = <<>>
    \/ /\ Len(part) >= 5
       /\ SubSeq(part, 1, 2) = <<" ", "  |  ">>
       /\ part[3] \in {"Average", "Total"}
       /\ part[4] = ": "
       /\ \A i \in 1..Len(part) :
              part[i] \notin {"<br>", " vs. <br>", " Difference | ",
                              SelectedPointCount}

IsSelectionPart(part) ==
    \/ part = <<>>
    \/ /\ Len(part) = 3
       /\ part[1] \in {"  |  ", "<br>"}
       /\ part[2] = SelectedPointCount
    \/ /\ Len(part) = 6
       /\ part[1] = "  |  " /\ part[2] = SelectedPointCount
       /\ part[4] = "<br>" /\ part[5] = SelectedPointCount

PlainTitleForm ==
    TitleReturned /\ FromVariableName(title_call.signal.y) = None
        => LET title  == title_call.title
               config == ConfigInit(PROJECT_CONFIGS,
                                    title_call.signal.project).config[1]
               front  == ScenarioA(title_call.signal).value \o <<"<br>">>
                             \o VariableTitle(config, title_call.signal.y)
           IN  /\ \A i \in 1..Len(title) :
                      title[i] \notin {" vs. <br>", " Difference | "}
               /\ Len(title) >= Len(front)
               /\ SubSeq(title, 1, Len(front)) = front
               /\ \E k \in Len(front)..Len(title) :
                      /\ IsAggregatePart(SubSeq(title, Len(front) + 1, k))
                      /\ IsSelectionPart(SubSeq(title, k + 1, Len(title)))

\* a title for a variable without suffix, with an aggregate and both counts
PlainTitleFormWitness ==
    /\ TitleReturned
    /\ FromVariableName(title_call.signal.y) = None
    /\ HasAggregate(title_call.title)
    /\ title_call.map_selection # None
    /\ title_call.chart_selection # None
    /\ Len(title_call.title) > 6
    /\ title_call.title[Len(title_call.title) - 4] = SelectedPointCount

(***************************************************************************)
(* Map.figure and Map.plot_title (map.py:80-144, 146-209, 258-264).  The   *)
(* Map holds the caller's dataframe object itself (map.py:44), so df is    *)
(* both.  The dataframe has no county, state or hydrogen column and no     *)
(* demand data is passed, so hover_text takes its KeyError branches.       *)
(***************************************************************************)
TextColumn == <<"text">>

\* the signal dictionary the page sends with the Map: one scenario on
\* display, no recalculation
MapSignal(m) ==
    [project |-> Some(MapProject), y |-> m.y, path |-> "wind",
     path2 |-> <<"d", "/", "w", "i", "n", "d", "_", "b", "_", "s", "c", ".",
                 "c", "s", "v">>,
     recalc |-> "off", recalc_table |-> None]

\* the dataframes a caller passes to the Map whose figure is read
FigureFrames ==
    UNION {[cols -> [1..n -> {3}]] :
              cols \in {{MeanLcoe}, {MeanLcoe, DemandConnectCount}},
              n \in 0..MaxRows}

\* Map.hover_text: one text per row
HoverText(m) ==
    LET col == df[MapY(m)]
    IN  [i \in 1..Len(col) |->
            IF m.units = "category"
            THEN <<ToString(col[i]), " ", m.units>>
            ELSE <<"<br>    ">> \o ConvertToTitle(MapY(m))
                     \o <<":   ", ToString(col[i]), " ", m.units>>]

\* self.df["text"] = value
SetColumn(frame, name, value) ==
    [c \in DOMAIN frame \cup {name} |-> IF c = name THEN value ELSE frame[c]]

\* build_title(self.df, self.signal_dict, map_selection=self.map_selection)
\* on the dataframe frame: the record of the call
PlotTitle(m, frame) ==
    LET init == ConfigInit(PROJECT_CONFIGS, Some(MapProject))
        out  == IF init.exc # NoExc THEN [title |-> <<>>, exc |-> init.exc]
                ELSE BuildTitle(init.config[1], AGGREGATIONS, Some(frame),
                                MapSignal(m), None, None)
    IN  [called |-> TRUE, df |-> Some(frame), signal |-> MapSignal(m),
         map_selection |-> None, chart_selection |-> None,
         title |-> out.title, exc |-> out.exc]

\* Map.plot_title
MapPlotTitle ==
    /\ map.constructed
    /\ ConfigCallEffect(Some(MapProject))
    /\ title_call' = PlotTitle(map, df)
    /\ UNCHANGED <<capcolVars, readVars, mapVars, AGGREGATIONS>>

\* Map.figure: the text column is written, the marker read unless the
\* dataframe is empty, and the layout read with its title
MapFigure ==
    /\ map.constructed
    /\ df' = SetColumn(df, TextColumn, HoverText(map))
    /\ marker' = IF Len(df[MapY(map)]) = 0 THEN marker ELSE MarkerDict(map)
    /\ ConfigCallEffect(Some(MapProject))
    /\ title_call' = PlotTitle(map, df')
    /\ UNCHANGED <<capcolVars, readVars, map, AGGREGATIONS>>

InitFigure ==
    /\ PROJECT_CONFIGS \in
           {<<[name |-> MapProject, config |-> c]>> :
               c \in {m \in MapConfigDicts : m["scales"] = Some(EmptyDict)}}
    /\ ConfigFresh
    /\ NoFiles
    /\ df \in FigureFrames
    /\ map = NoMap
    /\ marker = <<>>
    /\ NoTitle

NextFigure ==
    \/ \E user_ymin, user_ymax \in UserBounds :
           MapInit(MeanLcoe, user_ymin, user_ymax)
    \/ MapMarker
    \/ MapPlotTitle
    \/ MapFigure
    \/ EndRequest

SpecFigure == InitFigure /\ [][NextFigure]_vars

(***************************************************************************)
(* C11: constructing a Map and reading its figure, layout or plot_title    *)
(* leaves the dataframe the caller passed in with the columns and values   *)
(* it had: no step changes it.                                             *)
(***************************************************************************)
DataframeNotMutated == [][df' = df]_vars

(***************************************************************************)
(* The lru_cache of _safe_read_csv over more paths than it holds           *)
(* (config.py:370-377): callers keep reading one project file, which       *)
(* changes on disk, and read a series of other files one after the other.  *)
(***************************************************************************)
\* bound: how many other files are read
MaxFillers == 17

\* the file that is read again and again
LruProbe == 1

\* the other files, each read in turn
Fillers == (MaxPaths + 1)..(MaxPaths + MaxFillers)

\* the next other file to read: those before it have been read
NextFiller ==
    MaxPaths + 1 +
        Cardinality({f \in Fillers :
                        \E i \in 1..Len(read_log) :
                            read_log[i].path = Some(f)})

InitLru ==
    /\ PROJECT_CONFIGS = <<>>
    /\ ConfigFresh
    /\ rev_file = <<>>
    /\ capcol = NoCapcol
    /\ files \in {[p \in {LruProbe} \cup Fillers |->
                      IF p = LruProbe THEN probe ELSE others] :
                     probe \in FileStatus, others \in {"csv", "missing"}}
    /\ read_cache = <<>>
    /\ read_result = NoRead
    /\ read_log = <<>>
    /\ NoFrames

NextLru ==
    \/ SafeRead(Some(LruProbe), None)
    \/ NextFiller \in Fillers /\ SafeRead(None, Some(NextFiller))
    \/ \E status \in FileStatus : FileChange(LruProbe, status)

SpecLru == InitLru /\ [][NextLru]_vars

\* the paths among the LruMaxSize most recently used ones
RecentPaths ==
    {read_log[i].path :
        i \in {j \in 1..Len(read_log) : j > Len(read_log) - LruMaxSize}}

\* what the latest read of path that returned gave
LoggedValue(path) ==
    read_log[CHOOSE i \in 1..Len(read_log) : read_log[i].path = path].value

\* a step that is a call of _safe_read_csv
ReadStep ==
    /\ files' = files
    /\ read_result'.called
    /\ read_result' # read_result \/ read_log' # read_log

(***************************************************************************)
(* C12: _safe_read_csv is memoized per path, failures included.  A read    *)
(* of a path that is among the 16 paths most recently read (reads that     *)
(* returned) gives what the latest read of that path gave, None included,  *)
(* without touching the file, whatever the file has become; a read of a    *)
(* path that 16 other distinct paths have pushed out reads the file again. *)
(***************************************************************************)
MemoizedWhileRecent ==
    [][ReadStep =>
          IF read_result'.path \in RecentPaths
          THEN /\ read_result'.hit
               /\ read_result'.exc = NoExc
               /\ read_result'.value = LoggedValue(read_result'.path)
          ELSE ~read_result'.hit]_vars

\* a cached None is returned from a full cache although the file is now a
\* csv file
MemoizedWhileRecentWitness ==
    /\ read_result.called
    /\ read_result.hit
    /\ read_result.value = None
    /\ read_result.status = "csv"
    /\ Len(read_cache) = LruMaxSize
    /\ Len(read_log) > LruMaxSize

(***************************************************************************)
(* C13: infer_capcol prefers the AC capacity column.  If some usable       *)
(* column contains "_ac", the column returned contains "_ac", and it is    *)
(* the first such column when there are several usable columns; a column   *)
(* without "_ac" is returned only when it is the single usable column;     *)
(* several usable columns, none with "_ac", give KeyError.                 *)
(***************************************************************************)
AcCols(cols) == {i \in UsableCols(cols) : IsSubstr(W_ac, cols[i])}

CapcolPrefersAc ==
    capcol.called =>
        LET usable == UsableCols(capcol.cols)
            acs    == AcCols(capcol.cols)
        IN  /\ acs # {} =>
                   /\ capcol.exc = NoExc
                   /\ capcol.value # None
                   /\ IsSubstr(W_ac, capcol.value[1])
                   /\ Cardinality(usable) >= 2 =>
                          capcol.value =
                              Some(capcol.cols[CHOOSE i \in acs :
                                                  \A j \in acs : i <= j])
            /\ (capcol.value # None /\ ~IsSubstr(W_ac, capcol.value[1]))
                   => Cardinality(usable) = 1
            /\ (Cardinality(usable) >= 2 /\ acs = {})
                   => capcol.exc.type = "KeyError"

\* an AC column is returned although a usable column without "_ac" comes
\* before it in the file
CapcolPrefersAcWitness ==
    /\ capcol.called
    /\ capcol.exc = NoExc
    /\ capcol.value # None
    /\ IsSubstr(W_ac, capcol.value[1])
    /\ \E i \in UsableCols(capcol.cols), j \in AcCols(capcol.cols) :
           i < j /\ i \notin AcCols(capcol.cols)

(***************************************************************************)
(* Reading a difference-mode title: what follows the number printed for    *)
(* the aggregate, and the parts the title is expected to start with.       *)
(***************************************************************************)
AfterAggregate(title) ==
    LET i == CHOOSE i \in AggregateStarts(title) :
                 \A k \in AggregateStarts(title) : i <= k
        j == CHOOSE j \in (i + 1)..Len(title) :
                 /\ title[j] = ": "
                 /\ \A k \in (i + 1)..(j - 1) : title[k] # ": "
    IN  SubSeq(title, j + 2, Len(title))

\* no unit label follows: the title ends, or goes on with the hydrogen total
\* or a selection count
NoUnitLabel(rest) ==
    \/ rest = <<>>
    \/ rest[1] \in {"  |  ", "<br>"}
    \/ Len(rest) >= 2 /\ SubSeq(rest, 1, 2) = <<" ", "  |  ">>

TitleCallConfig ==
    ConfigInit(PROJECT_CONFIGS, title_call.signal.project).config[1]

\* "%" for the percentage suffix, else the config unit of the variable
DiffUnits ==
    IF FromVariableName(title_call.signal.y) = Some("PERCENTAGE") THEN "%"
    ELSE GetOr(ConfigUnits(TitleCallConfig),
               RemoveFromVariableName(title_call.signal.y), "")

DiffFront ==
    ScenarioA(title_call.signal).value \o <<" vs. <br>">>
        \o ScenarioB(title_call.signal) \o <<"<br>">>
        \o VariableTitle(TitleCallConfig, title_call.signal.y)

StartsWith(title, front) ==
    Len(title) >= Len(front) /\ SubSeq(title, 1, Len(front)) = front

\* the variable of the latest call is capacity in its own unit
CapacityDifference ==
    /\ RemoveFromVariableName(title_call.signal.y) = Capacity
    /\ DiffUnits # "%"

(***************************************************************************)
(* C14 as stated: in difference mode the title is '<scenario A> vs.        *)
(* <br><scenario B><br><variable title>', the aggregate is labelled        *)
(* '<units> Difference | Average' and no unit label follows its value,     *)
(* for every variable, capacity included.                                  *)
(***************************************************************************)
DifferenceAlwaysAverage ==
    (TitleReturned /\ FromVariableName(title_call.signal.y) # None)
        => /\ StartsWith(title_call.title, DiffFront)
           /\ HasAggregate(title_call.title) =>
                  /\ AggregateLabel(title_call.title) =
                         <<DiffUnits, " Difference | ", "Average">>
                  /\ NoUnitLabel(AfterAggregate(title_call.title))

(***************************************************************************)
(* C14 amended: in difference mode the title is '<scenario A> vs.          *)
(* <br><scenario B><br><variable title>'; the aggregate is labelled        *)
(* '<units> Difference | Average' with no unit label after its value,      *)
(* except for capacity with units other than "%", where the label is       *)
(* '<units> Difference | Total' and the unit label "TW" follows the value. *)
(***************************************************************************)
DifferenceAverageButCapacity ==
    (TitleReturned /\ FromVariableName(title_call.signal.y) # None)
        => /\ StartsWith(title_call.title, DiffFront)
           /\ HasAggregate(title_call.title) =>
                  IF CapacityDifference
                  THEN /\ AggregateLabel(title_call.title) =
                              <<DiffUnits, " Difference | ", "Total">>
                       /\ StartsWith(AfterAggregate(title_call.title),
                                     <<" ", "TW">>)
                  ELSE /\ AggregateLabel(title_call.title) =
                              <<DiffUnits, " Difference | ", "Average">>
                       /\ NoUnitLabel(AfterAggregate(title_call.title))

\* a difference title for capacity in MW, labelled Total and given in TW
DifferenceAverageButCapacityWitness ==
    /\ TitleReturned
    /\ FromVariableName(title_call.signal.y) = Some("ORIGINAL")
    /\ CapacityDifference
    /\ HasAggregate(title_call.title)
    /\ AggregateLabel(title_call.title) = <<"MW", " Difference | ", "Total">>

(***************************************************************************)
(* Reading a title for recalculation entries: "k: v" is the three pieces   *)
(* k, ": ", v in a row.                                                    *)
(***************************************************************************)
EntryAt(title, e, i) ==
    i + 2 <= Len(title) /\ SubSeq(title, i, i + 2) = <<e.k, ": ", e.v>>

EntryShown(title, e) == \E i \in 1..Len(title) : EntryAt(title, e, i)

\* the entry stands in the parentheses that follow scenario A's name
EntryShownAfterA(title, name, e) ==
    /\ StartsWith(title, name \o <<" (">>)
    /\ \E i \in (Len(name) + 2)..Len(title) :
           /\ EntryAt(title, e, i)
           /\ \A k \in (Len(name) + 2)..i : title[k] # ")"

EntriesOf(scenario) ==
    IF title_call.signal.recalc_table = None THEN {}
    ELSE {title_call.signal.recalc_table[1][scenario][i] :
             i \in 1..Len(title_call.signal.recalc_table[1][scenario])}

(***************************************************************************)
(* C15: a 'k: v' entry of recalc_table["scenario_a"] stands in parentheses *)
(* after scenario A's name if and only if recalc is not "off", v is not    *)
(* empty and the name does not contain "least" (in any letter case); with  *)
(* recalc "off" no entry of recalc_table, scenario_a or scenario_b, is     *)
(* anywhere in the title.                                                  *)
(***************************************************************************)
RecalcRelabelsOnlyWhenOn ==
    TitleReturned =>
        LET name == BuildName(title_call.signal.path)
        IN  /\ \A e \in EntriesOf("scenario_a") :
                   EntryShownAfterA(title_call.title, name, e)
                       <=> /\ title_call.signal.recalc # "off"
                           /\ e.v # ""
                           /\ ~IsSubstr(W_least, Lower(name))
            /\ title_call.signal.recalc = "off" =>
                   \A e \in EntriesOf("scenario_a")
                               \cup EntriesOf("scenario_b") :
                       ~EntryShown(title_call.title, e)

\* recalculation is on: one entry of scenario A is shown after its name, an
\* entry without value is not
RecalcRelabelsOnlyWhenOnWitness ==
    /\ TitleReturned
    /\ title_call.signal.recalc = "on"
    /\ \E e \in EntriesOf("scenario_a") :
           EntryShownAfterA(title_call.title,
                            BuildName(title_call.signal.path), e)
    /\ \E e \in EntriesOf("scenario_a") :
           e.v = "" /\ ~EntryShown(title_call.title, e)

(***************************************************************************)
(* C16: a map selection that is passed (a dictionary with points, even     *)
(* none) puts '  |  Selected point count: N' at the end of the title, N    *)
(* the number of its points; None or an empty dictionary adds no count; a  *)
(* chart selection given as well follows on a new '<br>' line.             *)
(***************************************************************************)
EndsWith(title, tail) ==
    /\ Len(title) >= Len(tail)
    /\ SubSeq(title, Len(title) - Len(tail) + 1, Len(title)) = tail

\* the selection is a dictionary that is not empty
Passed(selection) == selection # None /\ "points" \in DOMAIN selection[1]

CountPart(sep, selection) ==
    IF Passed(selection)
    THEN <<sep, SelectedPointCount, ToString(Len(selection[1]["points"]))>>
    ELSE <<>>

SelectionCountAppended ==
    TitleReturned =>
        /\ EndsWith(title_call.title,
                    CountPart("  |  ", title_call.map_selection)
                        \o CountPart("<br>", title_call.chart_selection))
        /\ Cardinality({i \in 1..Len(title_call.title) :
                           title_call.title[i] = SelectedPointCount})
               = (IF Passed(title_call.map_selection) THEN 1 ELSE 0)
                     + (IF Passed(title_call.chart_selection) THEN 1 ELSE 0)

\* a map selection without points reports 0, before the chart selection
SelectionCountAppendedWitness ==
    /\ TitleReturned
    /\ Passed(title_call.map_selection)
    /\ title_call.map_selection[1]["points"] = <<>>
    /\ Passed(title_call.chart_selection)
    /\ EndsWith(title_call.title,
                <<"  |  ", SelectedPointCount, "0", "<br>",
                  SelectedPointCount, "1">>)

(***************************************************************************)
(* C17: the column Map plots is "demand_connect_count" whenever the        *)
(* dataframe has it and the signal's y otherwise; the bounds taken from    *)
(* the data and the marker colours come from that column, while the units  *)
(* and the config scale are those of the signal's y.                       *)
(***************************************************************************)
DemandCountsPlotted ==
    map.constructed =>
        /\ map.units = GetOr(ConfigUnits(PROJECT_CONFIGS[1].config), map.y, "")
        /\ map.ymin = Or(map.user_ymin, DeclaredBound("min"))
        /\ map.ymax = Or(map.user_ymax, DeclaredBound("max"))
        /\ (Truthy(map.ymin) /\ ~Truthy(map.ymax))
               => MapYmax(map) = Some(SeriesMax(PlottedColumn))
        /\ (Truthy(map.ymax) /\ ~Truthy(map.ymin))
               => MapYmin(map) = Some(SeriesMin(PlottedColumn))
        /\ (DOMAIN marker # {} /\ map.units # "category")
               => marker.color = PlottedColumn

\* demand counts that differ from the signal's column colour the markers and
\* give ymax, while the min the config declares for the signal's y is kept
DemandCountsPlottedWitness ==
    /\ map.constructed
    /\ DemandConnectCount \in DOMAIN df
    /\ SeriesMax(df[DemandConnectCount]) # SeriesMax(df[map.y])
    /\ DOMAIN marker # {}
    /\ map.units # "category"
    /\ marker.color = df[DemandConnectCount]
    /\ map.user_ymin = None /\ map.user_ymax = None
    /\ DeclaredBound("min") = Some(6) /\ DeclaredBound("max") = None
    /\ MapYmin(map) = Some(6)
    /\ MapYmax(map) = Some(SeriesMax(df[DemandConnectCount]))

(***************************************************************************)
(* C18: a user bound of 0 counts as not supplied.  With user_ymin = 0 (or  *)
(* user_ymax = 0) the Map keeps what the config scale declares for that    *)
(* bound; a kept bound of 0 is replaced by the minimum (maximum) of the    *)
(* plotted column when the other bound is set; so ymin (ymax) is 0 for a   *)
(* user's 0 only if the config or the data gives 0.                        *)
(***************************************************************************)
ZeroBoundNotSupplied ==
    map.constructed =>
        /\ map.user_ymin = Some(0) => map.ymin = DeclaredBound("min")
        /\ map.user_ymax = Some(0) => map.ymax = DeclaredBound("max")
        /\ (map.ymin = Some(0) /\ map.ymax \notin {None, Some(0)})
               => MapYmin(map) = Some(SeriesMin(PlottedColumn))
        /\ (map.ymax = Some(0) /\ map.ymin \notin {None, Some(0)})
               => MapYmax(map) = Some(SeriesMax(PlottedColumn))
        /\ (map.user_ymin = Some(0) /\ MapYmin(map) = Some(0))
               => \/ DeclaredBound("min") = Some(0)
                  \/ SeriesMin(PlottedColumn) = 0
        /\ (map.user_ymax = Some(0) /\ MapYmax(map) = Some(0))
               => \/ DeclaredBound("max") = Some(0)
                  \/ SeriesMax(PlottedColumn) = 0

\* the user asks for 0 to 5, the config declares min 0 as well, and ymin is
\* the minimum of the data, 3
ZeroBoundNotSuppliedWitness ==
    /\ map.constructed
    /\ map.user_ymin = Some(0) /\ map.user_ymax = Some(5)
    /\ DeclaredBound("min") = Some(0)
    /\ MapYmax(map) = Some(5)
    /\ MapYmin(map) = Some(3)

(***************************************************************************)
(* The second copy of the title builder, pages/scenario/element_builders.py *)
(* (infer_recalc 38-53, build_title 56-172), translated statement by        *)
(* statement.  It imports build_name from scenario_data where map.py        *)
(* imports it from model; both are read as the same table of names.         *)
(***************************************************************************)
\* infer_recalc that keeps the last word of the title
InferRecalcKeepLastEB(title) == [value |-> title, exc |-> NoExc]

\* element_builders.infer_recalc(title)
InferRecalcEB(title) ==
    LET variables  == RecalcVariables
        has_least  == IsSubstr(W_least, Lower(title))
        title1     == Join(ButLast(Split(title, <<" ">>)), <<" ">>)
        any_v      == \E v \in variables : IsSubstr(v, title1)
        title2     == Replace(title1, <<"-">>, <<".">>)
        halves     == Split(title2, <<" ", " ">>)
        first_part == halves[1]
        recalc_part == halves[2]
        parts      == SplitBlanks(recalc_part)
        new_part   ==
            [i \in 1..Len(parts) |->
                LET letters == SelectSeq(parts[i], IsAlpha)
                    numbers == Replace(parts[i], letters, <<>>)
                IN  letters \o <<":", " ">> \o numbers]
    IN  CASE ~has_least -> [value |-> title, exc |-> NoExc]
          [] has_least /\ ~any_v -> [value |-> title1, exc |-> NoExc]
          [] has_least /\ any_v /\ Len(halves) < 2 ->
                 [value |-> <<>>,
                  exc |-> [type |-> "IndexError",
                           msg |-> "list index out of range", keys |-> {}]]
          [] OTHER ->
                 [value |-> first_part \o <<" ", "(">>
                                \o Join(new_part, <<",", " ">>) \o <<")">>,
                  exc |-> NoExc]

\* element_builders.build_title(df, signal_dict, mapsel, chartsel) after
\* Config(project) returned config: the title returned, or the exception
BuildTitleEB(config, aggs, frame, signal, mapsel, chartsel) ==
    LET path  == signal.path
        path2 == signal.path2
        recalc == signal.recalc
        y     == signal.y
        y_no_diff_suffix == RemoveFromVariableName(y)
        diff  == FromVariableName(y) # None
        is_percentage_diff == FromVariableName(y) = Some("PERCENTAGE")
        units == IF diff /\ is_percentage_diff THEN "%"
                 ELSE IF y_no_diff_suffix \in DOMAIN ConfigUnits(config)
                 THEN ConfigUnits(config)[y_no_diff_suffix]
                 ELSE ""
        recalc_table == IF recalc = "off" THEN None ELSE signal.recalc_table
        \* msgs of one scenario of the recalc table, joined with ", "
        Reprint(entries) ==
            LET kept == SelectSeq(entries, LAMBDA e : e.v # "")
            IN  Join([i \in 1..Len(kept) |-> <<kept[i].k, ": ", kept[i].v>>],
                     <<", ">>)
        s1_named == BuildName(path)
        s1_recalc ==
            IF recalc_table # None /\ ~IsSubstr(W_least, Lower(s1_named))
                  /\ Reprint(recalc_table[1].scenario_a) # <<>>
            THEN s1_named \o <<" (">> \o Reprint(recalc_table[1].scenario_a)
                     \o <<")">>
            ELSE s1_named
        s1_inferred == IF IsSubstr(W_least, Lower(s1_recalc))
                       THEN InferRecalcEB(s1_recalc)
                       ELSE [value |-> s1_recalc, exc |-> NoExc]
        s1 == s1_inferred.value
        var_title == IF y_no_diff_suffix \in DOMAIN ConfigTitles(config)
                     THEN <<ConfigTitles(config)[y_no_diff_suffix]>>
                     ELSE ConvertToTitle(y)
        title0 == s1 \o <<"<br>">> \o var_title
        listed == y_no_diff_suffix \in DOMAIN aggs
        ag_fun == IF listed THEN aggs[y_no_diff_suffix] ELSE "mean"
        conditioner0 == IF listed /\ ag_fun # "mean" THEN <<"Total">>
                        ELSE <<"Average">>
        s2_stem == Replace(Basename(path2),
                           <<"_", "s", "c", ".", "c", "s", "v">>, <<>>)
        s2_words == Split(s2_stem, <<"_">>)
        s2_named == Join([i \in 1..Len(s2_words) |-> Capitalize(s2_words[i])],
                         <<" ">>)
        s2 == IF recalc_table # None
                  /\ Reprint(recalc_table[1].scenario_b) # <<>>
              THEN s2_named \o <<" (">>
                       \o Reprint(recalc_table[1].scenario_b) \o <<")">>
              ELSE s2_named
        title1 == IF diff
                  THEN s1 \o <<" vs. <br>">> \o s2 \o <<"<br>">> \o var_title
                  ELSE title0
        conditioner1 == IF diff THEN <<units, " Difference | ", "Average">>
                        ELSE conditioner0
        is_df == frame # None
        y_exists == y_no_diff_suffix # <<>>
                        /\ LowerName(y_no_diff_suffix) # <<"none">>
        not_category == units # "category"
        map_title == is_df /\ y_exists /\ not_category
        capacity == y_no_diff_suffix = Capacity /\ units # "%"
        ag == IF capacity
              THEN AgText(frame[1][y], ag_fun, " / 1000000", "4")
              ELSE AgText(frame[1][y], ag_fun, "", "2")
        punits == IF capacity THEN <<"TW">>
                  ELSE IF diff THEN <<>>
                  ELSE IF y_no_diff_suffix \in DOMAIN ConfigUnits(config)
                  THEN <<ConfigUnits(config)[y_no_diff_suffix]>>
                  ELSE <<"">>
        conditioner2 ==
            IF capacity
            THEN [i \in 1..Len(conditioner1) |->
                     IF conditioner1[i] = "Average" THEN "Total"
                     ELSE conditioner1[i]]
            ELSE conditioner1
        ag_print == <<"  |  ">> \o conditioner2 \o <<": ", ag>>
        title2 == Join(<<title1, ag_print>>
                           \o [i \in 1..Len(punits) |-> <<punits[i]>>],
                       <<" ">>)
        title3 == IF HydrogenAnnualKg \in DOMAIN frame[1]
                  THEN title2 \o <<" ", "  |  ", "Total H2", ": ",
                                   AgText(frame[1][HydrogenAnnualKg], "sum",
                                          "", "2")>>
                  ELSE title2
        title4 == IF map_title THEN title3 ELSE title1
        title5 == IF mapsel # None /\ DOMAIN mapsel[1] # {}
                  THEN title4 \o <<"  |  ", "Selected point count: ",
                                   ToString(Len(mapsel[1]["points"]))>>
                  ELSE title4
        title6 == IF chartsel # None /\ DOMAIN chartsel[1] # {}
                  THEN title5 \o <<"<br>", "Selected point count: ",
                                   ToString(Len(chartsel[1]["points"]))>>
                  ELSE title5
    IN  IF s1_inferred.exc # NoExc
        THEN [title |-> <<>>, exc |-> s1_inferred.exc]
        ELSE IF map_title /\ y \notin DOMAIN frame[1]
        THEN [title |-> <<>>,
              exc |-> [type |-> "KeyError", msg |-> "y", keys |-> {}]]
        ELSE [title |-> title6, exc |-> NoExc]

\* titles handed to infer_recalc: the scenario names, with and without the
\* recalc text, and names with no word, one word or no double blank
RecalcTitles ==
    {BuildName(p) : p \in ScenarioPaths}
        \cup {WithRecalc(BuildName(p), t[1].scenario_a) :
                  p \in ScenarioPaths, t \in RecalcTables}
        \cup {<<>>, W_least, <<"L", "E", "A", "S", "T", " ", "x">>,
              <<"l", "e", "a", "s", "t", " ", "f", "c", "r", " ", "x">>}

ConfigInvalid(obj) ==
    obj.config = None \/ MissingKeys(obj.config[1]) # {}

FailedConfigCached ==
    [][/\ config_result'.exc.type = "ValueError" =>
            /\ config_result'.project \in DOMAIN all_configs'
            /\ all_configs'[config_result'.project] = config_result'.obj
            /\ ConfigInvalid(objects'[config_result'.obj])
            /\ objects'[config_result'.obj].project = config_result'.project
       /\ \A p \in DOMAIN config_calls :
            \A c \in config_calls[p] :
                (~c.ok /\ config_result'.project = p)
                    => /\ config_result'.obj = c.obj
                       /\ all_configs'[p] = c.obj]_vars

\* a known project lacking a required key failed a second time on the object
\* cached by its first failure, while an unknown name is cached with a
\* _config of None
FailedConfigCachedWitness ==
    /\ config_result.repeat
    /\ config_result.exc.type = "ValueError"
    /\ config_result.project \in DOMAIN all_configs
    /\ all_configs[config_result.project] = config_result.obj
    /\ objects[config_result.obj].config # None
    /\ ConfigInvalid(objects[config_result.obj])
    /\ \A c \in config_calls[config_result.project] :
           ~c.ok /\ c.obj = config_result.obj
    /\ \E q \in DOMAIN all_configs :
           /\ q # config_result.project
           /\ objects[all_configs[q]].config = None

====
